---- MODULE Spec2Model ----
(***************************************************************************)
(* Model of two callback families of the Cloudflare Terraform provider:    *)
(*   - the WAF groups data source (dataSourceCloudflareWAFGroupsRead and   *)
(*     expandFilterWAFGroups), specification SpecWAF;                      *)
(*   - the zone cache variants resource (Read, Create/Update, Delete),     *)
(*     specification SpecZCV.                                              *)
(* Strings that the code inspects character by character (regular          *)
(* expressions, group names, identifiers fed to the checksum) are          *)
(* sequences of one-character strings; "" is <<>>.                         *)
(***************************************************************************)
EXTENDS Integers, Sequences, FiniteSets, TLC

VARIABLES
    \* ---- WAF groups data source ----
    wpc,          \* position inside dataSourceCloudflareWAFGroupsRead
    wcfg,         \* the configuration read with d.Get: filter, package_id
    wd,           \* the ResourceData written by the callback: groups, id
    wd0,          \* wd as it was when the invocation began
    filter,       \* *searchFilterWAFGroups built by expandFilterWAFGroups
    pkgList,      \* []cloudflare.WAFPackage (their IDs)
    pkgIdx,       \* index of the next package of the range loop
    groupIds,     \* []string
    groupDetails, \* []interface{}
    wcalls,       \* API calls made by this invocation, in order
    fetched,      \* every group returned by ListWAFGroups in this invocation
    wret,         \* what the invocation returned: "none", "ok", "diag"
    \* ---- zone cache variants resource ----
    zpc,          \* position inside the running callback
    zop,          \* the callback invoked: "Read", "Update", "Delete"
    zd,           \* the ResourceData: id, zone_id and the variant fields
    zd0,          \* zd as it was when the invocation began
    remote,       \* the zone's cache variants held by the API
    resp,         \* the value returned by the last ZoneCacheVariants call
    zcalls,       \* API calls made by this invocation, in order
    zret          \* what the invocation returned: "none", "ok", "err"

wafVars == <<wpc, wcfg, wd, wd0, filter, pkgList, pkgIdx, groupIds,
             groupDetails, wcalls, fetched, wret>>
zcvVars == <<zpc, zop, zd, zd0, remote, resp, zcalls, zret>>
vars == <<wafVars, zcvVars>>

(***************************************************************************)
(* Bounds                                                                  *)
(***************************************************************************)
\* Largest number of packages ListWAFPackages returns.
MaxPkgs == 2

(***************************************************************************)
(* regexp.Compile and Regexp.Match for the pattern syntax used here:       *)
(* literals, ".", a leading "^", a trailing "$", and "(" ")" groups, of    *)
(* which only the balance is checked.                                      *)
(***************************************************************************)
RECURSIVE ParenDepth(_, _)
\* Depth of open groups after reading pattern p from depth n; -1 once a ")"
\* closes nothing.
ParenDepth(p, n) ==
    IF n < 0 THEN -1
    ELSE IF p = <<>> THEN n
    ELSE IF Head(p) = "(" THEN ParenDepth(Tail(p), n + 1)
    ELSE IF Head(p) = ")" THEN ParenDepth(Tail(p), n - 1)
    ELSE ParenDepth(Tail(p), n)

\* regexp.Compile returns an error ("missing closing )", "unexpected )").
CompileFails(p) == ParenDepth(p, 0) # 0

RECURSIVE MatchHere(_, _)
\* The pattern p matches a prefix of s.
MatchHere(p, s) ==
    IF p = <<>> THEN TRUE
    ELSE IF p = <<"$">> THEN s = <<>>
    ELSE IF s # <<>> /\ (Head(p) = "." \/ Head(p) = Head(s))
         THEN MatchHere(Tail(p), Tail(s))
    ELSE FALSE

\* Regexp.Match: the pattern matches somewhere in s (unanchored search).
Match(p, s) ==
    IF p # <<>> /\ Head(p) = "^"
    THEN MatchHere(Tail(p), s)
    ELSE \E i \in 0..Len(s) : MatchHere(p, SubSeq(s, i + 1, Len(s)))

(***************************************************************************)
(* Inputs of the WAF groups data source                                    *)
(***************************************************************************)
BotDetect == <<"b","o","t","-","d","e","t","e","c","t">>
SqlInject == <<"s","q","l","-","i","n","j","e","c","t">>

PatBot      == <<"^","b","o","t">>
PatEct      == <<"e",".","t","$">>
PatOpen     == <<"(","b","o","t">>

\* Values of the filter block's "name".
Patterns == {<<>>, PatBot, PatEct, PatOpen}
\* Values of the filter block's "mode" (schema: "on", "off", or unset).
Modes == {"", "on", "off"}

\* The map of one filter block: any subset of the keys "name" and "mode".
FilterMaps ==
    {<<>>}
    \cup {[name |-> n] : n \in Patterns}
    \cup {[mode |-> m] : m \in Modes}
    \cup {[name |-> n, mode |-> m] : n \in Patterns, m \in Modes}

\* d.Get("filter"): no block, a nil block, or one block.
FilterCfgs ==
    {<<>>, <<[nil |-> TRUE]>>} \cup {<<[nil |-> FALSE, m |-> fm]>> : fm \in FilterMaps}

PkgId(i) == <<"p", i>>
\* d.Get("package_id")
PackageIdCfgs == {<<>>, PkgId(9)}

G1 == [ID |-> <<"g","1">>, Name |-> BotDetect, Description |-> "bots",
       Mode |-> "on", RulesCount |-> 3, ModifiedRulesCount |-> 0]
G2 == [ID |-> <<"g","2">>, Name |-> BotDetect, Description |-> "bots",
       Mode |-> "off", RulesCount |-> 3, ModifiedRulesCount |-> 1]
G3 == [ID |-> <<"g","3">>, Name |-> SqlInject, Description |-> "sqli",
       Mode |-> "on", RulesCount |-> 7, ModifiedRulesCount |-> 0]

\* The lists ListWAFGroups may answer with.
GroupLists == {<<>>, <<G1, G2, G3>>, <<G3, G1>>}

\* The lists ListWAFPackages may answer with.
PkgLists == {[i \in 1..n |-> PkgId(i)] : n \in 0..MaxPkgs}

(***************************************************************************)
(* stringListChecksum: the identifiers are joined and hashed, and the      *)
(* digest is printed in hexadecimal.  The digest is modelled by a 16-bit   *)
(* polynomial hash of the joined characters.                               *)
(***************************************************************************)
CharCode == [c \in {"g", "1", "2", "3"} |->
                CASE c = "g" -> 103 [] c = "1" -> 49 [] c = "2" -> 50 [] c = "3" -> 51]

RECURSIVE Join(_)
\* strings.Join(s, "")
Join(s) == IF s = <<>> THEN <<>> ELSE Head(s) \o Join(Tail(s))

RECURSIVE Digest(_, _)
Digest(h, str) ==
    IF str = <<>> THEN h
    ELSE Digest((h * 31 + CharCode[Head(str)]) % 65536, Tail(str))

HexDigit == <<"0","1","2","3","4","5","6","7","8","9","a","b","c","d","e","f">>

\* fmt.Sprintf("%x", ...) of a 16-bit digest, four digits.
Hex(h) == << HexDigit[((h \div 4096) % 16) + 1], HexDigit[((h \div 256) % 16) + 1],
             HexDigit[((h \div 16) % 16) + 1],   HexDigit[(h % 16) + 1] >>

stringListChecksum(s) == Hex(Digest(7, Join(s)))

(***************************************************************************)
(* dataSourceCloudflareWAFGroupsRead                                       *)
(***************************************************************************)
\* &searchFilterWAFGroups{}: Name is nil, Mode is "".
EmptyFilter == [Name |-> [nil |-> TRUE, re |-> <<>>], Mode |-> ""]

\* One group appended to groupDetails (the map literal of the loop body).
Detail(group, pkgID) ==
    [id |-> group.ID, name |-> group.Name, description |-> group.Description,
     mode |-> group.Mode, rules_count |-> group.RulesCount,
     modified_rules_count |-> group.ModifiedRulesCount, package_id |-> pkgID]

\* Mutant of FilterStep: the mode criterion is applied even when it is empty.
FilterStepEmptyMode(acc, f, pkgID, group) ==
    IF ~f.Name.nil /\ ~Match(f.Name.re, group.Name) THEN acc
    ELSE IF f.Mode # group.Mode THEN acc
    ELSE [details |-> Append(acc.details, Detail(group, pkgID)),
          ids     |-> Append(acc.ids, group.ID)]

\* Mutant of FilterStep: a group is kept when any criterion passes.
FilterStepAny(acc, f, pkgID, group) ==
    IF (~f.Name.nil /\ ~Match(f.Name.re, group.Name))
       /\ (f.Mode # "" /\ f.Mode # group.Mode) THEN acc
    ELSE [details |-> Append(acc.details, Detail(group, pkgID)),
          ids     |-> Append(acc.ids, group.ID)]

\* Mutant of FilterStep: the identifier is recorded before the filter is applied.
FilterStepIdFirst(acc, f, pkgID, group) ==
    LET a == [acc EXCEPT !.ids = Append(acc.ids, group.ID)] IN
    IF ~f.Name.nil /\ ~Match(f.Name.re, group.Name) THEN a
    ELSE IF f.Mode # "" /\ f.Mode # group.Mode THEN a
    ELSE [a EXCEPT !.details = Append(a.details, Detail(group, pkgID))]

\* The body of the inner loop over groupList: two "continue" tests, then the
\* two appends.  acc holds groupDetails and groupIds.
FilterStep(acc, f, pkgID, group) ==
    IF ~f.Name.nil /\ ~Match(f.Name.re, group.Name) THEN acc
    ELSE IF f.Mode # "" /\ f.Mode # group.Mode THEN acc
    ELSE [details |-> Append(acc.details, Detail(group, pkgID)),
          ids     |-> Append(acc.ids, group.ID)]

RECURSIVE FilterLoop(_, _, _, _)
\* for _, group := range groupList { ... }
FilterLoop(acc, f, pkgID, groupList) ==
    IF groupList = <<>> THEN acc
    ELSE FilterLoop(FilterStep(acc, f, pkgID, Head(groupList)), f, pkgID, Tail(groupList))

\* The callback is entered: d.Get reads the configuration.
WAFInvoke ==
    /\ wpc \in {"idle", "done"}
    /\ \E fc \in FilterCfgs, pid \in PackageIdCfgs :
          wcfg' = [filter |-> fc, package_id |-> pid]
    /\ wpc' = "expand"
    /\ wd0' = wd
    /\ filter' = EmptyFilter
    /\ pkgList' = <<>>
    /\ pkgIdx' = 1
    /\ groupIds' = <<>>
    /\ groupDetails' = <<>>
    /\ wcalls' = <<>>
    /\ fetched' = <<>>
    /\ wret' = "none"
    /\ UNCHANGED wd
    /\ UNCHANGED zcvVars

\* Mutant of expandFilterWAFGroups: a pattern that does not compile is dropped
\* and the read goes on without a name criterion.
expandFilterWAFGroupsLenient ==
    /\ wpc = "expand"
    /\ LET cfg == wcfg.filter IN
       IF Len(cfg) = 0 \/ cfg[1].nil
       THEN filter' = EmptyFilter
       ELSE LET m == cfg[1].m
                nm == IF "name" \in DOMAIN m /\ ~CompileFails(m.name)
                      THEN [nil |-> FALSE, re |-> m.name]
                      ELSE EmptyFilter.Name
                md == IF "mode" \in DOMAIN m THEN m.mode ELSE ""
            IN filter' = [Name |-> nm, Mode |-> md]
    /\ wpc' = "packages"
    /\ UNCHANGED <<wcfg, wd, wd0, pkgList, pkgIdx, groupIds, groupDetails,
                   wcalls, fetched, wret>>
    /\ UNCHANGED zcvVars

\* expandFilterWAFGroups and the caller's error test.
expandFilterWAFGroups ==
    /\ wpc = "expand"
    /\ LET cfg == wcfg.filter IN
       IF Len(cfg) = 0 \/ cfg[1].nil
       THEN /\ filter' = EmptyFilter
            /\ wpc' = "packages"
            /\ wret' = wret
       ELSE LET m == cfg[1].m IN
            IF "name" \in DOMAIN m /\ CompileFails(m.name)
            THEN \* return nil, err; the caller returns diag.FromErr(err)
                 /\ filter' = filter
                 /\ wpc' = "done"
                 /\ wret' = "diag"
            ELSE /\ filter' =
                      [Name |-> IF "name" \in DOMAIN m
                                THEN [nil |-> FALSE, re |-> m.name]
                                ELSE EmptyFilter.Name,
                       Mode |-> IF "mode" \in DOMAIN m THEN m.mode ELSE ""]
                 /\ wpc' = "packages"
                 /\ wret' = wret
    /\ UNCHANGED <<wcfg, wd, wd0, pkgList, pkgIdx, groupIds, groupDetails,
                   wcalls, fetched>>
    /\ UNCHANGED zcvVars

\* The package list: ListWAFPackages when package_id is "", else the one
\* configured package.
WAFPackages ==
    /\ wpc = "packages"
    /\ IF wcfg.package_id = <<>>
       THEN \/ \E pl \in PkgLists :
                 /\ pkgList' = pl
                 /\ wcalls' = Append(wcalls, [api |-> "ListWAFPackages", arg |-> <<>>, err |-> FALSE])
                 /\ wpc' = "groups"
                 /\ wret' = wret
            \/ /\ pkgList' = pkgList
               /\ wcalls' = Append(wcalls, [api |-> "ListWAFPackages", arg |-> <<>>, err |-> TRUE])
               /\ wpc' = "done"
               /\ wret' = "diag"
       ELSE /\ pkgList' = Append(pkgList, wcfg.package_id)
            /\ wcalls' = wcalls
            /\ wpc' = "groups"
            /\ wret' = wret
    /\ UNCHANGED <<wcfg, wd, wd0, filter, pkgIdx, groupIds, groupDetails, fetched>>
    /\ UNCHANGED zcvVars

\* Mutant of WAFGroups: a failing ListWAFGroups is skipped and the loop goes on.
WAFGroupsSkipError ==
    /\ wpc = "groups"
    /\ pkgIdx <= Len(pkgList)
    /\ LET pkg == pkgList[pkgIdx] IN
       \/ \E gl \in GroupLists :
            LET acc == FilterLoop([details |-> groupDetails, ids |-> groupIds], filter, pkg, gl) IN
            /\ wcalls' = Append(wcalls, [api |-> "ListWAFGroups", arg |-> pkg, err |-> FALSE])
            /\ fetched' = fetched \o [i \in 1..Len(gl) |-> [pkg |-> pkg, group |-> gl[i]]]
            /\ groupDetails' = acc.details
            /\ groupIds' = acc.ids
       \/ /\ wcalls' = Append(wcalls, [api |-> "ListWAFGroups", arg |-> pkg, err |-> TRUE])
          /\ UNCHANGED <<fetched, groupDetails, groupIds>>
    /\ pkgIdx' = pkgIdx + 1
    /\ UNCHANGED <<wpc, wret, wcfg, wd, wd0, filter, pkgList>>
    /\ UNCHANGED zcvVars

\* One iteration of the loop over pkgList: ListWAFGroups, then the inner loop.
WAFGroups ==
    /\ wpc = "groups"
    /\ pkgIdx <= Len(pkgList)
    /\ LET pkg == pkgList[pkgIdx] IN
       \/ \E gl \in GroupLists :
            LET acc == FilterLoop([details |-> groupDetails, ids |-> groupIds], filter, pkg, gl) IN
            /\ wcalls' = Append(wcalls, [api |-> "ListWAFGroups", arg |-> pkg, err |-> FALSE])
            /\ fetched' = fetched \o [i \in 1..Len(gl) |-> [pkg |-> pkg, group |-> gl[i]]]
            /\ groupDetails' = acc.details
            /\ groupIds' = acc.ids
            /\ pkgIdx' = pkgIdx + 1
            /\ UNCHANGED <<wpc, wret>>
       \/ /\ wcalls' = Append(wcalls, [api |-> "ListWAFGroups", arg |-> pkg, err |-> TRUE])
          /\ wpc' = "done"
          /\ wret' = "diag"
          /\ UNCHANGED <<fetched, groupDetails, groupIds, pkgIdx>>
    /\ UNCHANGED <<wcfg, wd, wd0, filter, pkgList>>
    /\ UNCHANGED zcvVars

\* After the loop: d.Set("groups", groupDetails), then d.SetId.
WAFSet ==
    /\ wpc = "groups"
    /\ pkgIdx > Len(pkgList)
    /\ \/ /\ wd' = [groups |-> groupDetails, id |-> stringListChecksum(groupIds)]
          /\ wret' = "ok"
       \/ \* d.Set returns an error: nothing is written
          /\ wd' = wd
          /\ wret' = "diag"
    /\ wpc' = "done"
    /\ UNCHANGED <<wcfg, wd0, filter, pkgList, pkgIdx, groupIds, groupDetails,
                   wcalls, fetched>>
    /\ UNCHANGED zcvVars

WAFNext ==
    \/ WAFInvoke
    \/ expandFilterWAFGroups
    \/ WAFPackages
    \/ WAFGroups
    \/ WAFSet

(***************************************************************************)
(* Zone cache variants resource                                            *)
(***************************************************************************)
\* The variant fields, in the order resourceCloudflareZoneCacheVariantsRead
\* sets them.
Fields == <<"avif", "bmp", "gif", "jpeg", "jpg", "jp2", "jpg2", "png", "tif",
            "tiff", "webp">>

FieldSet == {Fields[i] : i \in 1..Len(Fields)}

ZoneIds == {"z1", "z2"}

\* Values of the variant fields: nothing set, two fields set, all fields set.
NoVariants   == [f \in FieldSet |-> <<>>]
SomeVariants == [f \in FieldSet |->
                    IF f = "avif" THEN <<"image/webp">>
                    ELSE IF f = "webp" THEN <<"image/avif">> ELSE <<>>]
AllVariants  == [f \in FieldSet |-> <<"image/jpeg">>]

ConfigValues == {NoVariants, SomeVariants, AllVariants}

\* Errors of the API client: the HTTP status (0: none) and the words of
\* err.Error().
ErrNotFound == [status |-> 404,
                text |-> <<"HTTP", "status", "404", ":", "not", "found">>]
ErrServer   == [status |-> 500,
                text |-> <<"HTTP", "status", "500", ":", "internal", "error">>]
ErrNetwork  == [status |-> 0, text |-> <<"dial", "tcp", ":", "timeout">>]
ApiErrors == {ErrNotFound, ErrServer, ErrNetwork}
NoError == [status |-> 0, text |-> <<>>]

\* strings.Contains(s, sub), on words.
Contains(str, sub) ==
    \E i \in 0..(Len(str) - Len(sub)) : SubSeq(str, i + 1, i + Len(sub)) = sub

\* strings.Contains(err.Error(), "HTTP status 404")
IsNotFound(err) == Contains(err.text, <<"HTTP", "status", "404">>)

\* cacheVariantsValuesFromResource: only the fields d.GetOk reports as set.
cacheVariantsValuesFromResource(d) ==
    [f \in {g \in FieldSet : d.fields[g] # <<>>} |-> d.fields[f]]

\* The API's value after UpdateZoneCacheVariants: fields absent from the
\* payload keep their value.
Updated(old, payload) ==
    [f \in FieldSet |-> IF f \in DOMAIN payload THEN payload[f] ELSE old[f]]

Call(api, zone, err) == [api |-> api, zone |-> zone, err |-> err]

\* A callback is entered.  Create and Update receive the configuration in d;
\* Read and Delete run on a resource that has an identifier.
ZCVInvoke ==
    /\ zpc \in {"idle", "done"}
    /\ \/ /\ zd.id # ""
          /\ zop' = "Read"
          /\ zpc' = "read"
          /\ zd' = zd
       \/ /\ zd.id # ""
          /\ zop' = "Delete"
          /\ zpc' = "delete"
          /\ zd' = zd
       \/ \E z \in ZoneIds, v \in ConfigValues :
             /\ zop' = "Update"
             /\ zpc' = "update"
             /\ zd' = [id |-> zd.id, zone_id |-> z, fields |-> v]
    /\ zd0' = zd'
    /\ zcalls' = <<>>
    /\ zret' = "none"
    /\ resp' = NoVariants
    /\ UNCHANGED remote
    /\ UNCHANGED wafVars

\* Mutant of ZCVReadCall: every error of the API is taken for "not found".
ZCVReadCallAnyErrorGone ==
    /\ zpc = "read"
    /\ \/ /\ zcalls' = Append(zcalls, Call("ZoneCacheVariants", zd.id, NoError))
          /\ resp' = remote[zd.id]
          /\ zpc' = "set"
          /\ UNCHANGED <<zd, zret>>
       \/ \E e \in ApiErrors :
             /\ zcalls' = Append(zcalls, Call("ZoneCacheVariants", zd.id, e))
             /\ zd' = [zd EXCEPT !.id = ""]
             /\ zret' = "ok"
             /\ zpc' = "done"
             /\ UNCHANGED resp
    /\ UNCHANGED <<zop, zd0, remote>>
    /\ UNCHANGED wafVars

\* resourceCloudflareZoneCacheVariantsRead up to the error test: the call to
\* client.ZoneCacheVariants.
ZCVReadCall ==
    /\ zpc = "read"
    /\ \/ /\ zcalls' = Append(zcalls, Call("ZoneCacheVariants", zd.id, NoError))
          /\ resp' = remote[zd.id]
          /\ zpc' = "set"
          /\ UNCHANGED <<zd, zret>>
       \/ \E e \in ApiErrors :
             /\ zcalls' = Append(zcalls, Call("ZoneCacheVariants", zd.id, e))
             /\ IF IsNotFound(e)
                THEN /\ zd' = [zd EXCEPT !.id = ""]
                     /\ zret' = "ok"
                ELSE /\ zd' = zd
                     /\ zret' = "err"
             /\ zpc' = "done"
             /\ UNCHANGED resp
    /\ UNCHANGED <<zop, zd0, remote>>
    /\ UNCHANGED wafVars

\* resourceCloudflareZoneCacheVariantsRead after the call: the eleven d.Set, in
\* order.  k = 0: all succeed; otherwise the k-th fails and the callback
\* returns its error, the fields before it written.
ZCVReadSet ==
    /\ zpc = "set"
    /\ \E k \in 0..Len(Fields) :
          /\ zd' = [zd EXCEPT !.fields =
                       [f \in FieldSet |->
                           IF k = 0 \/ (\E i \in 1..(k - 1) : Fields[i] = f)
                           THEN resp[f] ELSE zd.fields[f]]]
          /\ zret' = IF k = 0 THEN "ok" ELSE "err"
    /\ zpc' = "done"
    /\ UNCHANGED <<zop, zd0, remote, resp, zcalls>>
    /\ UNCHANGED wafVars

\* Mutant of ZCVUpdateCall: the read is made whether or not the update failed.
ZCVUpdateCallReadAnyway ==
    /\ zpc = "update"
    /\ LET zoneID == zd.zone_id
           variantsValue == cacheVariantsValuesFromResource(zd)
       IN /\ zd' = [zd EXCEPT !.id = zoneID]
          /\ \/ /\ zcalls' = Append(zcalls, Call("UpdateZoneCacheVariants", zoneID, NoError))
                /\ remote' = [remote EXCEPT ![zoneID] = Updated(remote[zoneID], variantsValue)]
             \/ \E e \in ApiErrors :
                   /\ zcalls' = Append(zcalls, Call("UpdateZoneCacheVariants", zoneID, e))
                   /\ remote' = remote
          /\ zpc' = "read"
          /\ zret' = zret
    /\ UNCHANGED <<zop, zd0, resp>>
    /\ UNCHANGED wafVars

\* Mutant of ZCVUpdateCall: the identifier is set only once the update succeeded.
ZCVUpdateCallLateId ==
    /\ zpc = "update"
    /\ LET zoneID == zd.zone_id
           variantsValue == cacheVariantsValuesFromResource(zd)
       IN \/ /\ zcalls' = Append(zcalls, Call("UpdateZoneCacheVariants", zoneID, NoError))
             /\ remote' = [remote EXCEPT ![zoneID] = Updated(remote[zoneID], variantsValue)]
             /\ zd' = [zd EXCEPT !.id = zoneID]
             /\ zpc' = "read"
             /\ zret' = zret
          \/ \E e \in ApiErrors :
                /\ zcalls' = Append(zcalls, Call("UpdateZoneCacheVariants", zoneID, e))
                /\ remote' = remote
                /\ zd' = zd
                /\ zpc' = "done"
                /\ zret' = "err"
    /\ UNCHANGED <<zop, zd0, resp>>
    /\ UNCHANGED wafVars

\* Mutant of ZCVUpdateCall: a failed update is tried once more.
ZCVUpdateCallRetry ==
    /\ zpc = "update"
    /\ LET zoneID == zd.zone_id
           variantsValue == cacheVariantsValuesFromResource(zd)
       IN /\ zd' = [zd EXCEPT !.id = zoneID]
          /\ \/ /\ zcalls' = Append(zcalls, Call("UpdateZoneCacheVariants", zoneID, NoError))
                /\ remote' = [remote EXCEPT ![zoneID] = Updated(remote[zoneID], variantsValue)]
                /\ zpc' = "read"
                /\ zret' = zret
             \/ \E e \in ApiErrors :
                   /\ zcalls' = Append(zcalls, Call("UpdateZoneCacheVariants", zoneID, e))
                   /\ remote' = remote
                   /\ IF Len(zcalls) = 0
                      THEN zpc' = "update" /\ zret' = zret
                      ELSE zpc' = "done" /\ zret' = "err"
    /\ UNCHANGED <<zop, zd0, resp>>
    /\ UNCHANGED wafVars

\* resourceCloudflareZoneCacheVariantsUpdate (Create and Update) up to its
\* return: d.SetId(zoneID), the payload, the call to UpdateZoneCacheVariants;
\* on success the callback goes on into the read callback.
ZCVUpdateCall ==
    /\ zpc = "update"
    /\ LET zoneID == zd.zone_id
           variantsValue == cacheVariantsValuesFromResource(zd)
       IN /\ zd' = [zd EXCEPT !.id = zoneID]
          /\ \/ /\ zcalls' = Append(zcalls, Call("UpdateZoneCacheVariants", zoneID, NoError))
                /\ remote' = [remote EXCEPT ![zoneID] = Updated(remote[zoneID], variantsValue)]
                /\ zpc' = "read"
                /\ zret' = zret
             \/ \E e \in ApiErrors :
                   /\ zcalls' = Append(zcalls, Call("UpdateZoneCacheVariants", zoneID, e))
                   /\ remote' = remote
                   /\ zpc' = "done"
                   /\ zret' = "err"
    /\ UNCHANGED <<zop, zd0, resp>>
    /\ UNCHANGED wafVars

\* resourceCloudflareZoneCacheVariantsDelete: the call to
\* DeleteZoneCacheVariants; any error is returned, and the callback itself
\* never calls d.SetId.  A successful delete resets the zone's variants.
ZCVDeleteCall ==
    /\ zpc = "delete"
    /\ \/ /\ zcalls' = Append(zcalls, Call("DeleteZoneCacheVariants", zd.id, NoError))
          /\ remote' = [remote EXCEPT ![zd.id] = NoVariants]
          /\ zret' = "ok"
       \/ \E e \in ApiErrors :
             /\ zcalls' = Append(zcalls, Call("DeleteZoneCacheVariants", zd.id, e))
             /\ remote' = remote
             /\ zret' = "err"
    /\ zpc' = "done"
    /\ UNCHANGED <<zop, zd, zd0, resp>>
    /\ UNCHANGED wafVars

ZCVNext ==
    \/ ZCVInvoke
    \/ ZCVReadCall
    \/ ZCVReadSet
    \/ ZCVUpdateCall
    \/ ZCVDeleteCall

\* The state before any callback has run: nothing read, no identifier, the
\* API holding no variants.
Init ==
    /\ wpc = "idle"
    /\ wcfg = [filter |-> <<>>, package_id |-> <<>>]
    /\ wd = [groups |-> <<>>, id |-> <<>>]
    /\ wd0 = [groups |-> <<>>, id |-> <<>>]
    /\ filter = EmptyFilter
    /\ pkgList = <<>>
    /\ pkgIdx = 1
    /\ groupIds = <<>>
    /\ groupDetails = <<>>
    /\ wcalls = <<>>
    /\ fetched = <<>>
    /\ wret = "none"
    /\ zpc = "idle"
    /\ zop = "none"
    /\ zd = [id |-> "", zone_id |-> "", fields |-> NoVariants]
    /\ zd0 = [id |-> "", zone_id |-> "", fields |-> NoVariants]
    /\ remote = [z \in ZoneIds |-> NoVariants]
    /\ resp = NoVariants
    /\ zcalls = <<>>
    /\ zret = "none"

(***************************************************************************)
(* Specifications                                                          *)
(***************************************************************************)
SpecWAF == Init /\ [][WAFNext]_vars

SpecZCV == Init /\ [][ZCVNext]_vars

(***************************************************************************)
(* Claims about the WAF groups data source (checked under SpecWAF)         *)
(***************************************************************************)
\* The filter block holds a map (it is neither absent nor nil).
HasFilterMap(cfg) == Len(cfg) > 0 /\ ~cfg[1].nil

\* The criteria of the configuration, as the configuration states them.
PassesCriteria(cfg, g) ==
    /\ (HasFilterMap(cfg) /\ "name" \in DOMAIN cfg[1].m)
          => Match(cfg[1].m.name, g.Name)
    /\ (HasFilterMap(cfg) /\ "mode" \in DOMAIN cfg[1].m /\ cfg[1].m.mode # "")
          => g.Mode = cfg[1].m.mode

\* The "id" fields of a written groups list, in order.
IdsOf(groups) == [i \in 1..Len(groups) |-> groups[i].id]

BotOnFilter == <<[nil |-> FALSE, m |-> [name |-> PatBot, mode |-> "on"]]>>

\* C1: after a successful read, "groups" holds exactly the fetched groups that
\* pass every present criterion (name: the pattern matches; mode: equal), in
\* the order fetched; the filter {name "^bot", mode "on"} over bot-detect/on,
\* bot-detect/off, sql-inject/on keeps the first group alone.
C1_GroupsAreTheMatches ==
    (wpc = "done" /\ wret = "ok") =>
        LET Test(e) == PassesCriteria(wcfg.filter, e.group)
            sel == SelectSeq(fetched, Test)
        IN /\ wd.groups = [i \in 1..Len(sel) |-> Detail(sel[i].group, sel[i].pkg)]
           /\ (/\ wcfg.filter = BotOnFilter
               /\ [i \in 1..Len(fetched) |-> fetched[i].group] = <<G1, G2, G3>>)
                 => wd.groups = <<Detail(G1, fetched[1].pkg)>>

C1_Witness ==
    /\ wpc = "done" /\ wret = "ok"
    /\ wcfg.filter = BotOnFilter
    /\ [i \in 1..Len(fetched) |-> fetched[i].group] = <<G1, G2, G3>>
    /\ Len(wd.groups) = 1

\* The configuration states no criterion: no filter block, a nil block, or a
\* block whose name and mode are each absent or empty.
NoCriteria(cfg) ==
    HasFilterMap(cfg) =>
        /\ "name" \in DOMAIN cfg[1].m => cfg[1].m.name = <<>>
        /\ "mode" \in DOMAIN cfg[1].m => cfg[1].m.mode = ""

\* C2: with an empty name pattern and an empty mode (filter block absent, or
\* present with empty values) a successful read returns every fetched group.
C2_EmptyFilterKeepsAll ==
    (wpc = "done" /\ wret = "ok" /\ NoCriteria(wcfg.filter)) =>
        wd.groups = [i \in 1..Len(fetched) |-> Detail(fetched[i].group, fetched[i].pkg)]

C2_Witness ==
    /\ wpc = "done" /\ wret = "ok"
    /\ wcfg.filter = <<[nil |-> FALSE, m |-> [name |-> <<>>, mode |-> ""]]>>
    /\ Len(fetched) >= 4
    /\ Len(wd.groups) = Len(fetched)

\* The configured name pattern does not compile.
Malformed(cfg) ==
    HasFilterMap(cfg) /\ "name" \in DOMAIN cfg[1].m /\ CompileFails(cfg[1].m.name)

\* C4: when the name pattern does not compile, the invocation makes no API
\* call at any point and returns a diagnostic.
C4_MalformedPatternNoCall ==
    (wpc # "idle" /\ Malformed(wcfg.filter)) =>
        /\ wcalls = <<>>
        /\ wpc \in {"expand", "done"}
        /\ wpc = "done" => wret = "diag"

C4_Witness ==
    /\ wpc = "done" /\ wret = "diag"
    /\ Malformed(wcfg.filter)
    /\ wcfg.package_id = <<>>

\* C5: an API error is the last call of its invocation, which has returned a
\* diagnostic and written neither "groups" nor the identifier.
C5_ApiErrorStops ==
    \A i \in 1..Len(wcalls) :
        wcalls[i].err =>
            /\ i = Len(wcalls)
            /\ wpc = "done"
            /\ wret = "diag"
            /\ wd = wd0

C5_Witness ==
    /\ wpc = "done"
    /\ Len(wcalls) = 3
    /\ ~wcalls[2].err
    /\ wcalls[3].err
    /\ groupIds # <<>>
    /\ wd0.id # <<>>

\* C6: after a successful read the identifier is the checksum of the "id"
\* fields of the written groups, in their order; when the read before it
\* wrote the same identifiers in the same order, the identifier is the same.
C6_IdFromMatchedIds ==
    (wpc = "done" /\ wret = "ok") =>
        /\ groupIds = IdsOf(wd.groups)
        /\ wd.id = stringListChecksum(IdsOf(wd.groups))
        /\ (wd0.id # <<>> /\ IdsOf(wd0.groups) = IdsOf(wd.groups)) => wd.id = wd0.id

C6_Witness ==
    /\ wpc = "done" /\ wret = "ok"
    /\ wd0.id # <<>>
    /\ Len(wd.groups) >= 2
    /\ IdsOf(wd0.groups) = IdsOf(wd.groups)
    /\ wd0.groups # wd.groups
    /\ wd.id = wd0.id

(***************************************************************************)
(* Claims about the zone cache variants resource (checked under SpecZCV)   *)
(***************************************************************************)
\* The calls of this invocation that change the API's configuration.
MutatingCalls ==
    {i \in 1..Len(zcalls) :
        zcalls[i].api \in {"UpdateZoneCacheVariants", "DeleteZoneCacheVariants"}}

\* A mutating call of this invocation succeeded.
Mutated == \E i \in MutatingCalls : zcalls[i].err = NoError

\* C3: a delete whose API call fails with a 404 error returns no error and
\* clears the identifier.
C3_DeleteNotFoundSucceeds ==
    (zpc = "done" /\ zop = "Delete" /\ zcalls[1].err.status = 404) =>
        /\ zret = "ok"
        /\ zd.id = ""

\* C7: Create/Update makes one update call first; the read call is made only
\* after that call succeeded; when it fails the invocation ends with that one
\* call and returns the error.
C7_UpdateThenRead ==
    zop = "Update" =>
        LET n == Len(zcalls) IN
        /\ n <= 2
        /\ n >= 1 => zcalls[1].api = "UpdateZoneCacheVariants"
        /\ n = 2 => /\ zcalls[1].err = NoError
                    /\ zcalls[2].api = "ZoneCacheVariants"
        /\ zpc = "done" =>
              /\ n >= 1
              /\ IF zcalls[1].err # NoError
                 THEN n = 1 /\ zret = "err"
                 ELSE n = 2

C7_Witness ==
    /\ zop = "Update" /\ zpc = "done" /\ zret = "ok"
    /\ Len(zcalls) = 2
    /\ zd.id # ""
    /\ zd.fields = remote[zd.id]
    /\ zd.fields # zd0.fields

\* C8, as stated: an invocation that returns a failure has applied no mutation.
C8_AllOrNothing ==
    (zpc = "done" /\ zret = "err") => ~Mutated

\* C8, amended: an invocation makes at most one mutating call, and one that
\* returns a failure has applied a mutation only when it is a Create/Update
\* whose update call succeeded and whose read then failed.
C8_FailureAfterMutationOnlyByRead ==
    /\ Cardinality(MutatingCalls) <= 1
    /\ (zpc = "done" /\ zret = "err" /\ Mutated) =>
          /\ zop = "Update"
          /\ Len(zcalls) = 2
          /\ zcalls[1].api = "UpdateZoneCacheVariants"
          /\ zcalls[2].api = "ZoneCacheVariants"
          /\ \/ zcalls[2].err # NoError /\ zcalls[2].err.status # 404
             \/ zcalls[2].err = NoError

C8_Witness ==
    /\ zpc = "done" /\ zret = "err" /\ zop = "Update"
    /\ Mutated
    /\ zcalls[2].err = ErrServer
    /\ remote[zd.id] = AllVariants
    /\ zd0.id = ""

\* C9: when the read callback's API call fails with a 404 error the callback
\* returns no error, clears the identifier and writes no variant field; on
\* any other error it returns an error and leaves identifier and fields as
\* they were; a read that returns no error after a successful call has
\* written all eleven fields from the API's value.
C9_ReadOutcomes ==
    LET n == Len(zcalls) IN
    (zpc = "done" /\ n > 0 /\ zcalls[n].api = "ZoneCacheVariants") =>
        LET last == zcalls[n] IN
        IF last.err.status = 404
        THEN zret = "ok" /\ zd.id = "" /\ zd.fields = zd0.fields
        ELSE IF last.err # NoError
        THEN zret = "err" /\ zd.id = last.zone /\ zd.fields = zd0.fields
        ELSE /\ zd.id = last.zone
             /\ zret = "ok" => \A f \in FieldSet : zd.fields[f] = remote[last.zone][f]

C9_Witness ==
    /\ zpc = "done" /\ zop = "Read"
    /\ zcalls[1].err.status = 404
    /\ zret = "ok" /\ zd.id = ""
    /\ zd.fields # remote[zd0.id]

\* C10: after a Create/Update whose update call failed the identifier is the
\* configured zone_id, not empty; after a Create/Update the identifier is
\* empty only when the read that followed met a 404 error.
C10_IdIsZoneAfterFailedUpdate ==
    (zpc = "done" /\ zop = "Update") =>
        /\ zcalls[1].err # NoError => (zd.id = zd.zone_id /\ zd.id # "")
        /\ zd.id = "" => /\ Len(zcalls) = 2
                         /\ zcalls[2].api = "ZoneCacheVariants"
                         /\ zcalls[2].err.status = 404

C10_Witness ==
    /\ zpc = "done" /\ zop = "Update"
    /\ zd0.id = ""
    /\ zcalls[1].err # NoError
    /\ zd.id = zd.zone_id

====
